---- MODULE Spec2Model ----
(***************************************************************************)
(* Verification model of personal_finance (models.py, app.py).             *)
(*                                                                         *)
(*   Spec      start-up: create_app -> initialize_app_data (the schema /   *)
(*             index reconciler) against a live MongoDB database           *)
(*   SpecShop  delete_shopping_list against shopping_lists/shopping_items  *)
(*   SpecRead  delete_shopping_list with a concurrent request reading the  *)
(*             list and its items                                          *)
(*   SpecBal   create_user / update_user_balance against the users         *)
(*             collection and its validator                                *)
(*   SpecCrud  the create_* and update_* repository functions of one       *)
(*             entity type against its collection and validator            *)
(*   SpecCache get_user / get_user_by_email (lru_cache) next to            *)
(*             create_user and update_user_balance                         *)
(*   SpecMissing  update_* and delete_shopping_list on targets that may    *)
(*             not exist                                                   *)
(*   SpecLife  create / update / delete of shopping lists and creation of  *)
(*             their items, from an empty database                         *)
(*                                                                         *)
(* The database is the environment.  Its reactions (which create_index     *)
(* call conflicts, which write a validator rejects, what an operation run  *)
(* without a session commits) follow MongoDB / pymongo semantics at the    *)
(* call sites that MODEL_MAP.json names.                                   *)
(***************************************************************************)
EXTENDS Integers, Sequences, FiniteSets, TLC

VARIABLES
    \* ---- start-up / reconciler (models.py initialize_app_data, app.py create_app)
    registry,          \* collection_schemas: collection -> sequence of declared indexes
    exists,            \* live: names of the collections that exist
    validator,         \* live: collection -> "none" | "old" | "declared"
    indexes,           \* live: collection -> set of [name, key, opts]
    pc,                \* position of the start-up code
    run,               \* number of the current start-up (process start)
    prev,              \* how initialize_app_data ended in the previous start-up
    collections,       \* local: db.list_collection_names()
    ci,                \* local: position of the loop over collection_schemas
    existing_indexes,  \* local: db[collection_name].index_information()
    di,                \* local: position of the loop over config['indexes']
    calls,             \* history: index calls issued in this run, with their results
    failed,            \* history: a database call of this run failed unrecoverably
    startReconciled,   \* history: the database satisfied the registry when this run began
    \* ---- shopping lists (models.py delete_shopping_list)
    shopping_lists,    \* live: the documents of db.shopping_lists
    shopping_items,    \* live: the documents of db.shopping_items
    del,               \* the delete_shopping_list call in progress: arguments and locals
    before,            \* history: both collections when the call began
    reader,            \* a concurrent request reading the list, then its items
    \* ---- users and balances (models.py create_user, update_user_balance)
    users,             \* live: the documents of db.users
    callers,           \* the update_user_balance calls of the concurrent requests
    create_result,     \* how the last create_user call ended
    opening,           \* history: user_id -> balance the user was created with
    requested,         \* history: user_id -> sum of the amounts of the executed calls
    credited,          \* history: user_id -> sum of the amounts of the calls that returned
    cache,             \* lru_cache of get_user / get_user_by_email: key -> cached result
    lookup,            \* the last get_user / get_user_by_email call and what it returned
    \* ---- repository functions (models.py create_*, update_*)
    entity,            \* the entity type whose collection the calls work on
    records,           \* live: the documents of that collection
    now,               \* datetime.utcnow()
    last               \* the last create/update call: its arguments and its result

reconVars == <<registry, exists, validator, indexes, pc, run, prev, collections, ci,
               existing_indexes, di, calls, failed, startReconciled>>

shopVars == <<shopping_lists, shopping_items, del, before, reader>>

balVars == <<users, callers, create_result, opening, requested, credited, cache, lookup>>

crudVars == <<entity, records, now, last>>

vars == <<reconVars, shopVars, balVars, crudVars>>

-----------------------------------------------------------------------------
(* Bounds *)

\* longest list of declared indexes drawn for the collection whose registry varies
MaxDeclared == 2
\* number of start-ups (runs of initialize_app_data) in one behaviour
MaxRuns == 2
\* number of shopping item documents the database may hold
MaxItems == 2
\* number of requests that call update_user_balance concurrently
NumCallers == 2

\* most documents the collection of the repository functions holds
MaxDocs == 2

\* last instant datetime.utcnow() reaches
MaxClock == 1

-----------------------------------------------------------------------------
(* Schema registry *)

ASCENDING == 1
DESCENDING == -1

KId == << <<"_id", ASCENDING>> >>
KUser == << <<"user_id", ASCENDING>> >>
KUserList == << <<"user_id", ASCENDING>>, <<"list_id", ASCENDING>> >>
KCreated == << <<"created_at", DESCENDING>> >>

NoOptions == {}
Unique == {"unique"}
OptionSets == {NoOptions, Unique}

\* the loop order of collection_schemas.items() (two of its collections)
Collections == <<"users", "shopping_items">>
CollectionSet == {Collections[i] : i \in 1..Len(Collections)}

\* 'users': {'indexes': [{'key': [('user_id', ASCENDING)], 'unique': True}]}
UsersIndexes == << [key |-> KUser, opts |-> Unique] >>
\* 'shopping_items': {'indexes': [{'key': [user_id, list_id]}, {'key': [created_at desc]}]}
ShoppingItemsIndexes == << [key |-> KUserList, opts |-> NoOptions],
                           [key |-> KCreated, opts |-> NoOptions] >>

\* index keys that occur in a collection, declared or live
KeyUniverse(c) == IF c = "users" THEN {KId, KUser} ELSE {KId, KUserList, KCreated}

DistinctKeys(s) == \A i, j \in 1..Len(s) : i # j => s[i].key # s[j].key

\* every registry configuration of one collection within the bound
RegistryChoices(c) ==
    {s \in UNION {[1..n -> [key : KeyUniverse(c), opts : OptionSets]] : n \in 0..MaxDeclared} :
        DistinctKeys(s)}

-----------------------------------------------------------------------------
(* Index names and options *)

PrimaryName == "_id_"

KeyPart(kv) == kv[1] \o "_" \o ToString(kv[2])

RECURSIVE JoinParts(_)
JoinParts(keys) ==
    IF Len(keys) = 1 THEN KeyPart(keys[1])
    ELSE KeyPart(keys[1]) \o "_" \o JoinParts(Tail(keys))

\* index_name = '_'.join(f"{k}_{v}" for k, v in keys)
IndexName(keys) == JoinParts(keys)

\* what index_information() reports for an index: its key and the other fields
IndexInfo(ix) == [key |-> ix.key, fields |-> {"v"} \cup ix.opts]

ExistingOptionsWithVersion(info) == info.fields \ {"key", "ns"}

\* existing_options = {k: v for k, v in info.items() if k not in ['key', 'v', 'ns']}
ExistingOptions(info) == info.fields \ {"key", "v", "ns"}

IsPrimaryNever(name) == FALSE

\* if existing_index_name == '_id_'
IsPrimary(name) == name = PrimaryName

IsAnyFailure(err) == err # "ok"

\* if 'IndexKeySpecsConflict' in str(e)
IsKeySpecsConflict(err) == err = "IndexKeySpecsConflict"

SwallowError(next) == next

\* logger.error(...); raise
AfterError(next) == "raised"

-----------------------------------------------------------------------------
(* The database's side of the index calls *)

PrimaryIndex == [name |-> PrimaryName, key |-> KId, opts |-> NoOptions]

HasName(ixs, name) == \E ix \in ixs : ix.name = name
ByName(ixs, name) == CHOOSE ix \in ixs : ix.name = name

\* createIndexes: the name is looked up first, then the key pattern
CreateOutcome(ixs, name, key, opts) ==
    IF HasName(ixs, name)
    THEN IF ByName(ixs, name).key # key THEN "IndexKeySpecsConflict"
         ELSE IF ByName(ixs, name).opts # opts THEN "IndexOptionsConflict"
         ELSE "ok"
    ELSE IF \E ix \in ixs : ix.key = key THEN "IndexOptionsConflict"
         ELSE "ok"

AfterCreate(ixs, name, key, opts) == ixs \cup {[name |-> name, key |-> key, opts |-> opts]}

\* dropIndexes by name
DropOutcome(ixs, name) ==
    IF name = PrimaryName THEN "InvalidOptions"
    ELSE IF ~HasName(ixs, name) THEN "IndexNotFound"
    ELSE "ok"

AfterDrop(ixs, name) == {ix \in ixs : ix.name # name}

\* a live index set MongoDB can hold: unique names, unique key patterns, the _id index
WellFormed(ixs) ==
    /\ PrimaryIndex \in ixs
    /\ \A a, b \in ixs : (a.name = b.name \/ a.key = b.key) => a = b

LiveNames(c) == {IndexName(k) : k \in KeyUniverse(c)}

\* per live key pattern other than _id: absent, or a name and options
LiveChoices(c) ==
    {ixs \in UNION {{{PrimaryIndex} \cup
                        {[name |-> f[k].name, key |-> k, opts |-> f[k].opts] : k \in ks} :
                      f \in [ks -> [name : LiveNames(c), opts : OptionSets]]} :
                    ks \in SUBSET (KeyUniverse(c) \ {KId})} :
        WellFormed(ixs)}

\* the live database satisfies the registry
Satisfied(c, d) ==
    \E ix \in indexes[c] : ix.key = d.key /\ ix.opts = d.opts

Reconciled ==
    \A c \in CollectionSet :
        /\ c \in exists
        /\ validator[c] = "declared"
        /\ \A i \in 1..Len(registry[c]) : Satisfied(c, registry[c][i])

-----------------------------------------------------------------------------
(* Start-up: create_app and initialize_app_data *)

Coll == Collections[ci]
Decl == registry[Coll][di]

Call(op, name, res) == [op |-> op, coll |-> Coll, name |-> name, res |-> res]

\* the position after the declared index di of collection ci
NextIndex ==
    IF di < Len(registry[Coll]) THEN [pc |-> "scan", ci |-> ci, di |-> di + 1]
    ELSE IF ci < Len(Collections) THEN [pc |-> "collection", ci |-> ci + 1, di |-> 0]
    ELSE [pc |-> "returned", ci |-> ci, di |-> di]

Goto(p) ==
    /\ pc' = p.pc
    /\ ci' = p.ci
    /\ di' = p.di

Here(p) == [pc |-> p, ci |-> ci, di |-> di]

\* an unrecoverable error: logged, then re-raised (unless the handler swallows it)
Fail(next) ==
    /\ failed' = TRUE
    /\ Goto([next EXCEPT !.pc = AfterError(next.pc)])

ReconInit ==
    /\ \E r \in RegistryChoices("shopping_items") :
          registry = [c \in CollectionSet |-> IF c = "users" THEN UsersIndexes ELSE r]
    /\ exists \in SUBSET CollectionSet
    /\ validator = [c \in CollectionSet |-> IF c \in exists THEN "old" ELSE "none"]
    /\ \E lu \in LiveChoices("users"), ls \in LiveChoices("shopping_items") :
          indexes = [c \in CollectionSet |->
                        IF c \notin exists THEN {}
                        ELSE IF c = "users" THEN lu ELSE ls]
    /\ pc = "connect"
    /\ run = 1
    /\ prev = "none"
    /\ collections = {}
    /\ ci = 1
    /\ existing_indexes = {}
    /\ di = 0
    /\ calls = << >>
    /\ failed = FALSE
    /\ startReconciled = Reconciled

\* models.py 39-44: get_db(), db.command('ping'), db.list_collection_names()
Connect ==
    /\ UNCHANGED <<shopVars, balVars, crudVars>>
    /\ pc = "connect"
    /\ \/ /\ collections' = exists
          /\ Goto(Here("collection"))
          /\ UNCHANGED failed
       \/ /\ Fail(Here("collection"))
          /\ UNCHANGED collections
    /\ UNCHANGED <<registry, exists, validator, indexes, run, prev, existing_indexes,
                   calls, startReconciled>>

\* models.py 219-237: collMod on an existing collection, create_collection otherwise
EnsureCollection ==
    /\ UNCHANGED <<shopVars, balVars, crudVars>>
    /\ pc = "collection"
    /\ \/ /\ Coll \in collections
          /\ validator' = [validator EXCEPT ![Coll] = "declared"]
          /\ Goto(Here("index_information"))
          /\ UNCHANGED <<exists, indexes, failed>>
       \/ /\ Coll \notin collections
          /\ exists' = exists \cup {Coll}
          /\ validator' = [validator EXCEPT ![Coll] = "declared"]
          /\ indexes' = [indexes EXCEPT ![Coll] = {PrimaryIndex}]
          /\ Goto(Here("index_information"))
          /\ UNCHANGED failed
       \/ /\ Fail(Here("index_information"))
          /\ UNCHANGED <<exists, validator, indexes>>
    /\ UNCHANGED <<registry, run, prev, collections, existing_indexes, calls,
                   startReconciled>>

\* models.py 239: existing_indexes = db[collection_name].index_information()
ReadIndexes ==
    /\ UNCHANGED <<shopVars, balVars, crudVars>>
    /\ pc = "index_information"
    /\ \/ /\ existing_indexes' = indexes[Coll]
          /\ Goto(IF Len(registry[Coll]) = 0
                  THEN NextIndex
                  ELSE [pc |-> "scan", ci |-> ci, di |-> 1])
          /\ UNCHANGED failed
       \/ /\ Fail(Here("scan"))
          /\ UNCHANGED existing_indexes
    /\ UNCHANGED <<registry, exists, validator, indexes, run, prev, collections, calls,
                   startReconciled>>

\* the entry of existing_indexes whose key tuple equals the declared one, if any
KeyMatches == {ix \in existing_indexes : IndexInfo(ix).key = Decl.key}
KeyMatch == CHOOSE ix \in KeyMatches : TRUE

\* models.py 240-266: compare the declared index with the recorded live indexes
ScanExisting ==
    /\ UNCHANGED <<shopVars, balVars, crudVars>>
    /\ pc = "scan"
    /\ \/ /\ KeyMatches = {}
          /\ Goto(Here("create"))
          /\ UNCHANGED <<indexes, calls, failed>>
       \/ /\ KeyMatches # {}
          /\ ExistingOptions(IndexInfo(KeyMatch)) = Decl.opts
          /\ Goto(NextIndex)
          /\ UNCHANGED <<indexes, calls, failed>>
       \/ /\ KeyMatches # {}
          /\ ExistingOptions(IndexInfo(KeyMatch)) # Decl.opts
          /\ IsPrimary(KeyMatch.name)
          /\ Goto(Here("create"))
          /\ UNCHANGED <<indexes, calls, failed>>
       \/ /\ KeyMatches # {}
          /\ ExistingOptions(IndexInfo(KeyMatch)) # Decl.opts
          /\ ~IsPrimary(KeyMatch.name)
          /\ \/ /\ DropOutcome(indexes[Coll], KeyMatch.name) = "ok"
                /\ indexes' = [indexes EXCEPT ![Coll] = AfterDrop(@, KeyMatch.name)]
                /\ calls' = Append(calls, Call("drop_index", KeyMatch.name, "ok"))
                /\ Goto(Here("create"))
                /\ UNCHANGED failed
             \/ /\ calls' = Append(calls, Call("drop_index", KeyMatch.name,
                        IF DropOutcome(indexes[Coll], KeyMatch.name) = "ok"
                        THEN "ConnectionFailure"
                        ELSE DropOutcome(indexes[Coll], KeyMatch.name)))
                /\ Fail(Here("create"))
                /\ UNCHANGED indexes
    /\ UNCHANGED <<registry, exists, validator, run, prev, collections, existing_indexes,
                   startReconciled>>

\* models.py 267-287: create_index, and what its failure leads to
CreateIndex ==
    /\ UNCHANGED <<shopVars, balVars, crudVars>>
    /\ pc = "create"
    /\ LET out == CreateOutcome(indexes[Coll], IndexName(Decl.key), Decl.key, Decl.opts) IN
       \/ /\ out = "ok"
          /\ indexes' = [indexes EXCEPT
                ![Coll] = AfterCreate(@, IndexName(Decl.key), Decl.key, Decl.opts)]
          /\ calls' = Append(calls, Call("create_index", IndexName(Decl.key), "ok"))
          /\ Goto(NextIndex)
          /\ UNCHANGED failed
       \/ \E err \in {out, "ConnectionFailure"} \ {"ok"} :
             /\ calls' = Append(calls, Call("create_index", IndexName(Decl.key), err))
             /\ UNCHANGED indexes
             /\ IF IsKeySpecsConflict(err)
                THEN /\ Goto(IF IndexName(Decl.key) # PrimaryName
                             THEN Here("retry_drop")
                             ELSE NextIndex)
                     /\ UNCHANGED failed
                ELSE Fail(NextIndex)
    /\ UNCHANGED <<registry, exists, validator, run, prev, collections, existing_indexes,
                   startReconciled>>

\* models.py 277: db[collection_name].drop_index(index_name)
RetryDrop ==
    /\ UNCHANGED <<shopVars, balVars, crudVars>>
    /\ pc = "retry_drop"
    /\ \/ /\ DropOutcome(indexes[Coll], IndexName(Decl.key)) = "ok"
          /\ indexes' = [indexes EXCEPT ![Coll] = AfterDrop(@, IndexName(Decl.key))]
          /\ calls' = Append(calls, Call("drop_index", IndexName(Decl.key), "ok"))
          /\ Goto(Here("retry_create"))
          /\ UNCHANGED failed
       \/ /\ calls' = Append(calls, Call("drop_index", IndexName(Decl.key),
                  IF DropOutcome(indexes[Coll], IndexName(Decl.key)) = "ok"
                  THEN "ConnectionFailure"
                  ELSE DropOutcome(indexes[Coll], IndexName(Decl.key))))
          /\ Fail(Here("retry_create"))
          /\ UNCHANGED indexes
    /\ UNCHANGED <<registry, exists, validator, run, prev, collections, existing_indexes,
                   startReconciled>>

\* models.py 278: the one retry of create_index, inside the except block
RetryCreate ==
    /\ UNCHANGED <<shopVars, balVars, crudVars>>
    /\ pc = "retry_create"
    /\ LET out == CreateOutcome(indexes[Coll], IndexName(Decl.key), Decl.key, Decl.opts) IN
       \/ /\ out = "ok"
          /\ indexes' = [indexes EXCEPT
                ![Coll] = AfterCreate(@, IndexName(Decl.key), Decl.key, Decl.opts)]
          /\ calls' = Append(calls, Call("create_index", IndexName(Decl.key), "ok"))
          /\ Goto(NextIndex)
          /\ UNCHANGED failed
       \/ \E err \in {out, "ConnectionFailure"} \ {"ok"} :
             /\ calls' = Append(calls, Call("create_index", IndexName(Decl.key), err))
             /\ UNCHANGED indexes
             /\ Fail(NextIndex)
    /\ UNCHANGED <<registry, exists, validator, run, prev, collections, existing_indexes,
                   startReconciled>>

\* app.py 144-145: initialize_app_data returned; initialize_tax_data is a name that
\* app.py neither defines nor imports, so calling it raises NameError
InitializeTaxData ==
    /\ UNCHANGED <<shopVars, balVars, crudVars>>
    /\ pc = "returned"
    /\ pc' = "aborted"
    /\ UNCHANGED <<registry, exists, validator, indexes, run, prev, collections, ci,
                   existing_indexes, di, calls, failed, startReconciled>>

\* app.py 285: the process is started again (app = create_app() at import)
Restart ==
    /\ UNCHANGED <<shopVars, balVars, crudVars>>
    /\ pc \in {"raised", "aborted"}
    /\ run < MaxRuns
    /\ run' = run + 1
    /\ prev' = IF pc = "raised" THEN "raised" ELSE "returned"
    /\ pc' = "connect"
    /\ collections' = {}
    /\ ci' = 1
    /\ existing_indexes' = {}
    /\ di' = 0
    /\ calls' = << >>
    /\ failed' = FALSE
    /\ startReconciled' = Reconciled
    /\ UNCHANGED <<registry, exists, validator, indexes>>

-----------------------------------------------------------------------------
(* Shopping lists: delete_shopping_list *)

ListIds == {"L1", "L2"}
UserIds == {"u1", "u2"}
StoredEmails == {"a@x.io", "A@x.io"}
None == "None"
ItemIds == 1..MaxItems

\* Python truthiness of an optional string argument
Truthy(v) == v \notin {None, ""}

\* str.lower() on the addresses of the model
Lower(e) == IF e = "A@x.io" THEN "a@x.io" ELSE e

AnyValue == "*"

FilterIdOnly(list_id, user_id, email) == [_id |-> list_id, user_id |-> AnyValue, email |-> AnyValue]

\* filter_criteria = {'_id': list_id}; with user_id and email: plus both of them
FilterCriteria(list_id, user_id, email) ==
    IF Truthy(user_id) /\ Truthy(email)
    THEN [_id |-> list_id, user_id |-> user_id, email |-> Lower(email)]
    ELSE [_id |-> list_id, user_id |-> AnyValue, email |-> AnyValue]

\* a document matches a filter when it agrees on every field the filter names
Matches(doc, f) ==
    /\ doc._id = f._id
    /\ f.user_id # AnyValue => doc.user_id = f.user_id
    /\ f.email # AnyValue => doc.email = f.email

\* delete_one: the collection without the (one) matching document
DeleteOneDoc(lists, f) == {d \in lists : ~Matches(d, f)}

CountAsDeleted(lists, f) == 1

\* list_result.deleted_count
DeletedCount(lists, f) == Cardinality(lists) - Cardinality(DeleteOneDoc(lists, f))

\* delete_many({'list_id': list_id})
DeleteItemsOf(items, list_id) == {it \in items : it.list_id # list_id}

ProceedAlways(deleted_count) == TRUE

\* if list_result.deleted_count == 0: return False
ProceedToItems(deleted_count) == deleted_count # 0

\* functools.lru_cache decorates get_user and get_user_by_email only; every other
\* function of models.py is a plain function without cache_clear
Cached == {"get_user", "get_user_by_email"}
HasCacheClear(fn) == fn \in Cached

\* txn: the transaction of "with session.start_transaction()"; cache_clear: the state
\* of that transaction when get_shopping_lists.cache_clear() was called
Idle == [pc |-> "idle", list_id |-> None, user_id |-> None, email |-> None,
         deleted_count |-> -1, result |-> None, txn |-> "none",
         cache_clear |-> "not called"]

\* the request that reads while others write: get_shopping_lists, then
\* get_shopping_items, of one list
NoRead == [pc |-> "idle", list_id |-> None, lists |-> {}, items |-> {},
           in_delete |-> FALSE, result |-> None]

UniqueIds(docs) == \A a, b \in docs : a._id = b._id => a = b

ShopIdle ==
    /\ shopping_lists = {}
    /\ shopping_items = {}
    /\ del = Idle
    /\ before = [lists |-> {}, items |-> {}]
    /\ reader = NoRead

ShopInit ==
    /\ shopping_lists \in SUBSET [_id : ListIds, user_id : UserIds, email : StoredEmails]
    /\ UniqueIds(shopping_lists)
    /\ shopping_items \in SUBSET [_id : ItemIds, list_id : ListIds]
    /\ UniqueIds(shopping_items)
    /\ del = Idle
    /\ before = [lists |-> shopping_lists, items |-> shopping_items]
    /\ reader = NoRead

\* a request calls delete_shopping_list(db, list_id, user_id, email); models.py 726-728
CallDeleteWith(list_ids, user_ids, emails) ==
    /\ del.pc \in {"idle", "done"}
    /\ \E l \in list_ids, u \in user_ids, e \in emails :
          del' = [Idle EXCEPT !.pc = "delete_one", !.list_id = l, !.user_id = u,
                              !.email = e, !.txn = "open"]
    /\ before' = [lists |-> shopping_lists, items |-> shopping_items]
    /\ UNCHANGED <<shopping_lists, shopping_items, reader>>
    /\ UNCHANGED <<reconVars, balVars, crudVars>>

CallDelete == CallDeleteWith(ListIds, UserIds \cup {None}, StoredEmails \cup {None, ""})

\* the call as the owner of the lists makes it: both ownership parameters given
CallDeleteAsOwner == CallDeleteWith(ListIds, {"u1"}, {"a@x.io"})

\* models.py 730-737: db.shopping_lists.delete_one(filter_criteria) is given no
\* session, so it is not part of the transaction opened around it: it takes effect
\* at once.  A zero deleted_count returns False from inside the with block, which
\* commits the (empty) transaction; an exception aborts it.
DeleteOne ==
    /\ del.pc = "delete_one"
    /\ LET f == FilterCriteria(del.list_id, del.user_id, del.email)
           n == DeletedCount(shopping_lists, f) IN
       \/ /\ shopping_lists' = DeleteOneDoc(shopping_lists, f)
          /\ del' = IF ProceedToItems(n)
                    THEN [del EXCEPT !.pc = "delete_many", !.deleted_count = n]
                    ELSE [del EXCEPT !.pc = "done", !.deleted_count = n,
                                     !.result = "False", !.txn = "committed"]
       \/ /\ del' = [del EXCEPT !.pc = "done", !.result = "raised", !.txn = "aborted"]
          /\ UNCHANGED shopping_lists
    /\ UNCHANGED <<shopping_items, before, reader>>
    /\ UNCHANGED <<reconVars, balVars, crudVars>>

\* models.py 739-749: db.shopping_items.delete_many({'list_id': list_id}), again
\* without the session; then get_shopping_lists.cache_clear(), an attribute that the
\* plain function get_shopping_lists (models.py 601) does not have: AttributeError,
\* logged and re-raised by the except block.  A failing delete_many raises as well.
\* The call at line 744 stands inside the with block: the transaction is still open.
DeleteMany ==
    /\ del.pc = "delete_many"
    /\ \/ /\ shopping_items' = DeleteItemsOf(shopping_items, del.list_id)
          /\ del' = IF HasCacheClear("get_shopping_lists")
                    THEN [del EXCEPT !.pc = "done", !.result = "True",
                                     !.cache_clear = del.txn, !.txn = "committed"]
                    ELSE [del EXCEPT !.pc = "done", !.result = "raised",
                                     !.cache_clear = del.txn, !.txn = "aborted"]
       \/ /\ UNCHANGED shopping_items
          /\ del' = [del EXCEPT !.pc = "done", !.result = "raised", !.txn = "aborted"]
    /\ UNCHANGED <<shopping_lists, before, reader>>
    /\ UNCHANGED <<reconVars, balVars, crudVars>>

\* models.py 601-617: get_shopping_lists(db, {'_id': list_id}) of another request;
\* one find on shopping_lists, outside any transaction
GetShoppingLists ==
    /\ reader.pc \in {"idle", "done"}
    /\ \E l \in ListIds :
          \/ reader' = [NoRead EXCEPT
                           !.pc = "lists_read", !.list_id = l,
                           !.lists = {d \in shopping_lists : d._id = l},
                           !.in_delete = /\ del.pc \in {"delete_one", "delete_many"}
                                         /\ del.list_id = l
                                         /\ \E d \in before.lists : d._id = l]
          \/ reader' = [NoRead EXCEPT !.pc = "done", !.list_id = l, !.result = "raised"]
    /\ UNCHANGED <<shopping_lists, shopping_items, del, before>>
    /\ UNCHANGED <<reconVars, balVars, crudVars>>

\* models.py 426-442: get_shopping_items(db, {'list_id': list_id}) of the same request
GetShoppingItems ==
    /\ reader.pc = "lists_read"
    /\ \/ reader' = [reader EXCEPT
                        !.pc = "done", !.result = "read",
                        !.items = {it \in shopping_items : it.list_id = reader.list_id}]
       \/ reader' = [reader EXCEPT !.pc = "done", !.result = "raised"]
    /\ UNCHANGED <<shopping_lists, shopping_items, del, before>>
    /\ UNCHANGED <<reconVars, balVars, crudVars>>

ShopNext ==
    \/ CallDelete
    \/ DeleteOne
    \/ DeleteMany

\* the lists of one owner, any items: the database a reading request shares with the
\* deleting one
ReadInit ==
    /\ shopping_lists \in SUBSET [_id : ListIds, user_id : {"u1"}, email : {"a@x.io"}]
    /\ shopping_items \in SUBSET [_id : ItemIds, list_id : ListIds]
    /\ UniqueIds(shopping_items)
    /\ del = Idle
    /\ before = [lists |-> shopping_lists, items |-> shopping_items]
    /\ reader = NoRead

ReadNext ==
    \/ CallDelete
    \/ DeleteOne
    \/ DeleteMany
    \/ GetShoppingLists
    \/ GetShoppingItems

ReconIdle ==
    /\ registry = [c \in CollectionSet |->
                      IF c = "users" THEN UsersIndexes ELSE ShoppingItemsIndexes]
    /\ exists = CollectionSet
    /\ validator = [c \in CollectionSet |-> "declared"]
    /\ indexes = [c \in CollectionSet |->
                     {PrimaryIndex} \cup
                     {[name |-> IndexName(registry[c][i].key), key |-> registry[c][i].key,
                       opts |-> registry[c][i].opts] : i \in 1..Len(registry[c])}]
    /\ pc = "aborted"
    /\ run = MaxRuns
    /\ prev = "returned"
    /\ collections = CollectionSet
    /\ ci = Len(Collections)
    /\ existing_indexes = indexes[Collections[Len(Collections)]]
    /\ di = Len(registry[Collections[Len(Collections)]])
    /\ calls = << >>
    /\ failed = FALSE
    /\ startReconciled = TRUE



-----------------------------------------------------------------------------
(* Users: create_user and update_user_balance *)

\* user_data.setdefault('ficore_credit_balance', 10)
SignupBonus == 10

CallerIds == 1..NumCallers
Amounts == {-15, -3, 0, 5}

Double(v) == [type |-> "double", val |-> v]
Int32(v) == [type |-> "int", val |-> v]
Absent == [type |-> "absent", val |-> 0]

\* the balances a caller of create_user may pass, or none
BalanceInputs == {Absent, Double(0), Double(10), Double(-3)}

ValidUserNoMinimum(doc) ==
    /\ doc.user_id # None
    /\ doc.balance.type = "double"

\* the users validator: required user_id (string) and ficore_credit_balance,
\* a double with minimum 0
ValidUser(doc) ==
    /\ doc.user_id # None
    /\ doc.balance.type = "double"
    /\ doc.balance.val >= 0

\* a write to users is validated once collMod / create_collection installed the validator
Accepts(doc) == validator["users"] = "declared" => ValidUser(doc)

\* the unique index on user_id
DuplicateKey(docs, doc) == \E d \in docs : d.user_id = doc.user_id

SetBalance(balance, amount) == [balance EXCEPT !.val = amount]

\* {'$inc': {'ficore_credit_balance': amount}}
IncBalance(balance, amount) == [balance EXCEPT !.val = @ + amount]

\* result.matched_count of an update_one: 1 for a matched document, whether or not
\* the update changed it
MatchedCount(old, new) == 1

\* result.modified_count of an update_one: 0 when the update left the matched
\* document as it was ($inc by 0, $set to the stored values)
ModifiedCount(old, new) == IF new # old THEN 1 ELSE 0

NoCall == [pc |-> "idle", user_id |-> None, amount |-> 0, result |-> None]

\* the address a user of the model is stored with
EmailOf(u) == IF u = "u1" THEN "a@x.io" ELSE IF u = "u2" THEN "b@x.io" ELSE None

\* the arguments the lookups of the model are called with
LookupKeys(fn) == IF fn = "get_user" THEN {"u1"} ELSE {"A@x.io"}

\* @lru_cache(maxsize=128): nothing cached yet (the model looks up fewer than 128
\* distinct keys, so no entry is ever evicted)
NoCache == [fn \in Cached |-> << >>]

\* what a lookup returns: the set of the user objects returned, empty for None
NoUser == {}

NoLookup == [fn |-> None, key |-> None, result |-> NoUser, hit |-> FALSE, error |-> FALSE]

ClearUser(c, user_id) == NoCache

\* update_user_balance (and create_user) calls neither get_user.cache_clear() nor
\* get_user_by_email.cache_clear(): the cache after a user write is the cache before it
AfterUserWrite(c, user_id) == c

BalIdle ==
    /\ users = {}
    /\ callers = [c \in CallerIds |-> NoCall]
    /\ create_result = None
    /\ opening = [u \in UserIds |-> 0]
    /\ requested = [u \in UserIds |-> 0]
    /\ credited = [u \in UserIds |-> 0]
    /\ cache = NoCache
    /\ lookup = NoLookup

\* models.py 918-946: create_user(db, user_data); the caller gives the user its id
\* (as _id and as user_id) and its lower-cased email
CreateUser ==
    /\ \E u \in UserIds \cup {None}, b \in BalanceInputs :
          LET doc == [_id |-> u, user_id |-> u, email |-> EmailOf(u), role |-> "personal",
                      balance |-> IF b = Absent THEN Int32(SignupBonus) ELSE b] IN
          IF Accepts(doc) /\ ~DuplicateKey(users, doc)
          THEN /\ users' = users \cup {doc}
               /\ opening' = [opening EXCEPT ![u] = doc.balance.val]
               /\ create_result' = "inserted"
          ELSE /\ create_result' = "raised"
               /\ UNCHANGED <<users, opening>>
    /\ UNCHANGED <<callers, requested, credited, cache, lookup>>
    /\ UNCHANGED <<reconVars, shopVars, crudVars>>

\* a request calls update_user_balance(db, user_id, amount)
Invoke ==
    /\ \E c \in CallerIds, u \in UserIds, a \in Amounts :
          /\ callers[c].pc = "idle"
          /\ callers' = [callers EXCEPT ![c] = [NoCall EXCEPT !.pc = "calling",
                                                        !.user_id = u, !.amount = a]]
    /\ UNCHANGED <<users, create_result, opening, requested, credited, cache, lookup>>
    /\ UNCHANGED <<reconVars, shopVars, crudVars>>

Return(c, res) == callers' = [callers EXCEPT ![c].pc = "done", ![c].result = res]

\* models.py 662-675: one update_one with $inc, executed by the database as a single
\* atomic step; a result the validator rejects is a WriteError, logged and re-raised
UpdateOne ==
    /\ \E c \in CallerIds :
          /\ callers[c].pc = "calling"
          /\ cache' = AfterUserWrite(cache, callers[c].user_id)
          /\ LET u == callers[c].user_id
                 a == callers[c].amount
                 matched == {d \in users : d.user_id = u} IN
             IF matched = {}
             THEN /\ Return(c, "False")
                  /\ UNCHANGED <<users, requested, credited>>
             ELSE LET d == CHOOSE x \in matched : TRUE
                      n == [d EXCEPT !.balance = IncBalance(d.balance, a)] IN
                  /\ requested' = [requested EXCEPT ![u] = @ + a]
                  /\ IF Accepts(n)
                     THEN /\ users' = (users \ {d}) \cup {n}
                          /\ credited' = [credited EXCEPT ![u] = @ + a]
                          /\ Return(c, IF ModifiedCount(d, n) > 0 THEN "True"
                                                                  ELSE "False")
                     ELSE /\ Return(c, "raised")
                          /\ UNCHANGED <<users, credited>>
    /\ UNCHANGED <<create_result, opening, lookup>>
    /\ UNCHANGED <<reconVars, shopVars, crudVars>>

BalNext ==
    \/ CreateUser
    \/ Invoke
    \/ UpdateOne

\* class UserObj: the document's fields as attributes, ficore_credit_balance through
\* int(...) (the balances of the model are whole numbers)
UserObj(doc) == [doc EXCEPT !.balance = Int32(doc.balance.val)]

\* a call of an lru_cache-wrapped lookup: a key already cached is answered from the
\* cache without running the body; otherwise the body runs find_one, returns
\* UserObj(user_doc), or None when nothing is found or when find_one raised, and
\* the value returned, None included, is cached under the key
CachedCall(fn, key, found) ==
    IF key \in DOMAIN cache[fn]
    THEN /\ lookup' = [fn |-> fn, key |-> key, result |-> cache[fn][key],
                       hit |-> TRUE, error |-> FALSE]
         /\ UNCHANGED cache
    ELSE \E failure \in BOOLEAN :
            LET res == IF failure \/ found = {} THEN NoUser
                       ELSE {UserObj(CHOOSE d \in found : TRUE)} IN
            /\ lookup' = [fn |-> fn, key |-> key, result |-> res,
                          hit |-> FALSE, error |-> failure]
            /\ cache' = [cache EXCEPT ![fn] =
                            [k \in DOMAIN @ \cup {key} |-> IF k = key THEN res ELSE @[k]]]

\* what find_one of the lookup matches in db.users
FoundBy(fn, key) ==
    IF fn = "get_user" THEN {d \in users : d._id = key}
    ELSE {d \in users : d.email = Lower(key)}

\* models.py 864-890: get_user(db, user_id), find_one({'_id': user_id})
GetUser ==
    /\ \E k \in LookupKeys("get_user") : CachedCall("get_user", k, FoundBy("get_user", k))
    /\ UNCHANGED <<users, callers, create_result, opening, requested, credited>>
    /\ UNCHANGED <<reconVars, shopVars, crudVars>>

\* models.py 892-916: get_user_by_email(db, email), find_one({'email': email.lower()})
GetUserByEmail ==
    /\ \E e \in LookupKeys("get_user_by_email") :
          CachedCall("get_user_by_email", e, FoundBy("get_user_by_email", e))
    /\ UNCHANGED <<users, callers, create_result, opening, requested, credited>>
    /\ UNCHANGED <<reconVars, shopVars, crudVars>>

\* one request is about to run update_user_balance(db, 'u1', 5); no user is stored
\* and nothing is cached yet
CacheInit ==
    /\ users = {}
    /\ callers = [c \in CallerIds |->
                     IF c = 1 THEN [NoCall EXCEPT !.pc = "calling", !.user_id = "u1",
                                                  !.amount = 5]
                     ELSE NoCall]
    /\ create_result = None
    /\ opening = [u \in UserIds |-> 0]
    /\ requested = [u \in UserIds |-> 0]
    /\ credited = [u \in UserIds |-> 0]
    /\ cache = NoCache
    /\ lookup = NoLookup

CacheNext ==
    \/ CreateUser
    \/ UpdateOne
    \/ GetUser
    \/ GetUserByEmail

-----------------------------------------------------------------------------
(* Repository functions: create_* and update_* of one entity type *)

Entities == {"users", "budgets", "bills", "bill_reminders", "shopping_items",
             "shopping_lists", "credit_requests"}

\* the required_fields list of the entity's create function; create_user and
\* create_credit_request have none
required_fields(e) ==
    CASE e = "budgets" ->
            {"user_id", "income", "fixed_expenses", "variable_expenses", "created_at"}
      [] e = "bills" -> {"user_id", "bill_name", "amount", "due_date", "status"}
      [] e = "bill_reminders" -> {"user_id", "notification_id", "type", "message", "sent_at"}
      [] e = "shopping_items" ->
            {"user_id", "list_id", "name", "quantity", "price", "category", "status",
             "created_at", "updated_at"}
      [] e = "shopping_lists" ->
            {"name", "session_id", "budget", "created_at", "updated_at", "total_spent",
             "status"}
      [] OTHER -> {}

\* collection_schemas[e]['validator']['$jsonSchema']['required']; credit_requests
\* is not in collection_schemas
ValidatorRequired(e) ==
    CASE e = "users" -> {"user_id", "ficore_credit_balance"}
      [] e = "shopping_items" -> required_fields(e) \cup {"session_id", "unit"}
      [] e = "shopping_lists" -> required_fields(e) \cup {"items"}
      [] e = "credit_requests" -> {}
      [] OTHER -> required_fields(e)

\* the fields a caller passes for a complete document of the entity
Fields(e) ==
    IF e = "credit_requests" THEN {"user_id", "amount", "status"}
    ELSE required_fields(e) \cup ValidatorRequired(e)

\* 'bsonType' (or 'enum') the validators declare for a field
BsonType(f) ==
    CASE f \in {"created_at", "updated_at", "due_date", "sent_at"} -> "date"
      [] f \in {"price", "budget", "total_spent", "ficore_credit_balance"} -> "double"
      [] f \in {"income", "fixed_expenses", "variable_expenses", "amount"} -> "number"
      [] f = "quantity" -> "int"
      [] f \in {"category", "status", "type", "unit"} -> "enum"
      [] f = "items" -> "array"
      [] f \in {"is_admin", "setup_complete"} -> "bool"
      [] OTHER -> "string"

\* 'minimum' the validators declare for a numeric field
Minimum(f) == IF f = "quantity" THEN 1 ELSE 0

Value(t, v) == [type |-> t, val |-> v]

\* a value of the declared type; v tells two such values apart
Sample(f, v, t) ==
    CASE BsonType(f) = "date" -> Value("date", t)
      [] BsonType(f) = "number" -> Double(v)
      [] OTHER -> Value(BsonType(f), v)

\* item_data.get('unit', 'piece')
Piece == Value("enum", 1)
\* list_data.get('items', [])
EmptyList == Value("array", 0)

TypeOk(f, val) ==
    \/ val.type = BsonType(f)
    \/ BsonType(f) = "number" /\ val.type \in {"int", "double"}

\* the $jsonSchema validator of the collection, validationAction error
ValidDoc(e, doc) ==
    /\ ValidatorRequired(e) \subseteq DOMAIN doc
    /\ \A f \in ValidatorRequired(e) :
          /\ TypeOk(f, doc[f])
          /\ BsonType(f) \in {"double", "number", "int"} => doc[f].val >= Minimum(f)

AnyPresent(data, fields) == fields = {} \/ \E f \in fields : f \in DOMAIN data

\* all(field in data for field in required_fields)
AllPresent(data, fields) == \A f \in fields : f \in DOMAIN data

\* setdefault / .get(..., default) of the create functions
WithDefaults(e, data, t) ==
    LET dflt ==
          CASE e = "shopping_items" -> [unit |-> Piece]
            [] e = "shopping_lists" -> [items |-> EmptyList]
            [] e = "users" -> [created_at |-> Value("date", t),
                               ficore_credit_balance |-> Int32(SignupBonus),
                               role |-> Value("string", 0),
                               is_admin |-> Value("bool", 0),
                               setup_complete |-> Value("bool", 0)]
            [] OTHER -> << >>
    IN [f \in DOMAIN data \cup DOMAIN dflt |->
           IF f \in DOMAIN data THEN data[f] ELSE dflt[f]]

WithId(doc, id) ==
    [f \in DOMAIN doc \cup {"_id"} |-> IF f = "_id" THEN Value("id", id) ELSE doc[f]]

\* the unique index of users on user_id
Duplicate(e, stored, doc) ==
    /\ e = "users"
    /\ "user_id" \in DOMAIN doc
    /\ \E d \in stored : "user_id" \in DOMAIN d /\ d["user_id"] = doc["user_id"]

\* insert_one: "inserted", or the error the server answers with
InsertOutcome(e, stored, doc) ==
    IF ~ValidDoc(e, doc) THEN "WriteError"
    ELSE IF Duplicate(e, stored, doc) THEN "DuplicateKeyError"
    ELSE "inserted"

\* create_shopping_list and update_shopping_list call get_shopping_lists.cache_clear()
ClearsShoppingLists(e) == e = "shopping_lists"

\* update_shopping_item, update_shopping_list and update_credit_request set
\* update_data['updated_at'] = datetime.utcnow()
Stamps(e) == e \in {"shopping_items", "shopping_lists", "credit_requests"}

\* update_data['updated_at'] = datetime.utcnow()
Stamped(update_data, t) ==
    [f \in DOMAIN update_data \cup {"updated_at"} |->
        IF f = "updated_at" THEN Value("date", t) ELSE update_data[f]]

Replace(doc, update_data) ==
    [f \in DOMAIN update_data \cup {"_id"} |->
        IF f \in DOMAIN update_data THEN update_data[f] ELSE doc[f]]

\* {'$set': update_data}
Merge(doc, update_data) ==
    [f \in DOMAIN doc \cup DOMAIN update_data |->
        IF f \in DOMAIN update_data THEN update_data[f] ELSE doc[f]]

\* the field the update calls of the model name, for the entities with an update
\* function
UpdateFields(e) ==
    CASE e = "shopping_items" -> {"name"}
      [] e = "shopping_lists" -> {"status"}
      [] e = "budgets" -> {"income"}
      [] e = "bills" -> {"status"}
      [] e = "bill_reminders" -> {"message"}
      [] e = "credit_requests" -> {"amount"}
      [] OTHER -> {}

Tokens == {1, 2}
Ids == 1..MaxDocs

\* update_credit_request and get_credit_requests end their except block with
\* "return False" / "return []" where the other functions re-raise
ReturnsDefault(e) == e = "credit_requests"

\* the entities with a get_* function that returns list(find(...))
Listed == {"budgets", "bills", "shopping_items", "credit_requests"}

\* record.get(key, default)
GetOr(record, key, default) == IF key \in DOMAIN record THEN record[key] ELSE default

\* to_dict_shopping_item(record): the twelve keys of its dictionary; 'id' is
\* str(record['_id'])
ToDictShoppingItem(record) ==
    [id |-> Value("string", GetOr(record, "_id", Value("id", 0)).val),
     user_id |-> GetOr(record, "user_id", Value("string", 0)),
     list_id |-> GetOr(record, "list_id", Value("string", 0)),
     name |-> GetOr(record, "name", Value("string", 0)),
     quantity |-> GetOr(record, "quantity", Value("int", 0)),
     price |-> GetOr(record, "price", Value("double", 0)),
     category |-> GetOr(record, "category", Value("string", 0)),
     status |-> GetOr(record, "status", Value("string", 0)),
     created_at |-> GetOr(record, "created_at", Value("null", 0)),
     updated_at |-> GetOr(record, "updated_at", Value("null", 0)),
     store |-> GetOr(record, "store", Value("string", 0)),
     frequency |-> GetOr(record, "frequency", Value("int", 1))]
Omissions(e) == {{}} \cup {{f} : f \in Fields(e)}

\* per item of a batch: complete, without a field of required_fields, or without a
\* field only the validator requires
BulkOmissions == {{}, {"name"}, {"unit"}}

\* the data a caller passes: every field of the entity but the omitted ones
Data(e, omit, v, t) == [f \in Fields(e) \ omit |-> Sample(f, v, t)]

\* error: a database call of the function failed; returned: the documents a get_*
\* call handed back
NoOp == [fn |-> "none", omitted |-> << >>, field |-> None, id |-> 0, token |-> 0,
         outcome |-> None, error |-> FALSE, returned |-> {}]

CrudIdle ==
    /\ entity = "users"
    /\ records = {}
    /\ now = 0
    /\ last = NoOp

CrudInit ==
    /\ entity \in Entities
    /\ records = {}
    /\ now = 0
    /\ last = NoOp

FreshId == Cardinality(records) + 1

\* datetime.utcnow() advances between calls
Tick ==
    /\ now < MaxClock
    /\ now' = now + 1
    /\ UNCHANGED <<entity, records, last>>
    /\ UNCHANGED <<reconVars, shopVars, balVars>>

\* create_budget, create_bill, create_bill_reminder, create_shopping_item,
\* create_shopping_list, create_user, create_credit_request: the required_fields
\* check (ValueError before any write), the defaults, insert_one, and for shopping
\* lists get_shopping_lists.cache_clear() after the insert
Create ==
    /\ Cardinality(records) < MaxDocs
    /\ \E omit \in Omissions(entity) :
          LET v == FreshId
              data == Data(entity, omit, v, now)
              doc == WithId(WithDefaults(entity, data, now), FreshId)
              ins == InsertOutcome(entity, records, doc)
              call == [NoOp EXCEPT !.fn = "create", !.omitted = <<omit>>, !.token = v]
          IN
          IF ~AllPresent(data, required_fields(entity))
          THEN /\ last' = [call EXCEPT !.outcome = "ValueError"]
               /\ UNCHANGED records
          ELSE \/ /\ ins = "inserted"
                  /\ records' = records \cup {doc}
                  /\ last' = [call EXCEPT
                              !.id = FreshId,
                              !.outcome = IF ClearsShoppingLists(entity) /\
                                             ~HasCacheClear("get_shopping_lists")
                                          THEN "AttributeError" ELSE "id"]
               \/ /\ ins # "inserted"
                  /\ last' = [call EXCEPT !.outcome = ins, !.error = TRUE]
                  /\ UNCHANGED records
               \/ /\ last' = [call EXCEPT !.outcome = "unavailable", !.error = TRUE]
                  /\ UNCHANGED records
    /\ UNCHANGED <<entity, now>>
    /\ UNCHANGED <<reconVars, shopVars, balVars>>

\* insert_many(ordered): the documents are inserted one after the other up to the
\* first one the validator rejects
RECURSIVE InsertMany(_, _, _)
InsertMany(stored, batch, i) ==
    IF i > Len(batch) THEN [docs |-> stored, outcome |-> "ids"]
    ELSE LET doc == WithId(batch[i], Cardinality(stored) + 1) IN
         IF InsertOutcome("shopping_items", stored, doc) = "inserted"
         THEN InsertMany(stored \cup {doc}, batch, i + 1)
         ELSE [docs |-> stored, outcome |-> "BulkWriteError"]

FirstItemChecked(batch) == AllPresent(batch[1], required_fields("shopping_items"))

\* for item in items_data: if not all(field in item ...): raise ValueError
EveryItemChecked(batch) ==
    \A i \in 1..Len(batch) : AllPresent(batch[i], required_fields("shopping_items"))

\* create_shopping_items_bulk(db, items_data): the check of every item, then one
\* insert_many; no default for 'unit' here
CreateBulk ==
    /\ entity = "shopping_items"
    /\ \E n \in 1..MaxDocs : \E omit \in [1..n -> BulkOmissions] :
          /\ Cardinality(records) + n <= MaxDocs
          /\ LET batch == [i \in 1..n |-> Data(entity, omit[i], i, now)]
                 call == [NoOp EXCEPT !.fn = "bulk", !.omitted = omit]
                 ins == InsertMany(records, batch, 1)
             IN
             IF ~EveryItemChecked(batch)
             THEN /\ last' = [call EXCEPT !.outcome = "ValueError"]
                  /\ UNCHANGED records
             ELSE \/ /\ records' = ins.docs
                     /\ last' = [call EXCEPT !.outcome = ins.outcome,
                                             !.error = ins.outcome # "ids"]
                  \/ /\ last' = [call EXCEPT !.outcome = "unavailable", !.error = TRUE]
                     /\ UNCHANGED records
    /\ UNCHANGED <<entity, now>>
    /\ UNCHANGED <<reconVars, shopVars, balVars>>

\* update_shopping_item, update_shopping_list, update_budget, update_bill,
\* update_bill_reminder, update_credit_request (db, id, {field: value}): the
\* timestamp where the function sets one, update_one with $set, modified_count
Update ==
    /\ UpdateFields(entity) # {}
    /\ \E id \in Ids, f \in UpdateFields(entity), v \in Tokens :
          LET given == [x \in {f} |-> Sample(f, v, now)]
              update_data == IF Stamps(entity) THEN Stamped(given, now) ELSE given
              matched == {d \in records : d["_id"] = Value("id", id)}
              call == [NoOp EXCEPT !.fn = "update", !.id = id, !.field = f,
                                   !.token = v]
          IN
          \/ /\ matched = {}
             /\ last' = [call EXCEPT !.outcome = "False"]
             /\ UNCHANGED records
          \/ \E d \in matched :
                LET n == Merge(d, update_data) IN
                IF ModifiedCount(d, n) = 0
                THEN /\ last' = [call EXCEPT !.outcome = "False"]
                     /\ UNCHANGED records
                ELSE IF ~ValidDoc(entity, n)
                THEN /\ last' = [call EXCEPT
                                 !.outcome = IF ReturnsDefault(entity) THEN "False"
                                             ELSE "WriteError",
                                 !.error = TRUE]
                     /\ UNCHANGED records
                ELSE /\ records' = (records \ {d}) \cup {n}
                     /\ last' = [call EXCEPT
                                 !.outcome = IF ClearsShoppingLists(entity) /\
                                                ~HasCacheClear("get_shopping_lists")
                                             THEN "AttributeError" ELSE "True"]
          \/ /\ last' = [call EXCEPT
                         !.outcome = IF ReturnsDefault(entity) THEN "False"
                                     ELSE "unavailable",
                         !.error = TRUE]
             /\ UNCHANGED records
    /\ UNCHANGED <<entity, now>>
    /\ UNCHANGED <<reconVars, shopVars, balVars>>

\* get_budgets, get_bills, get_shopping_items, get_credit_requests
\* (db, {'_id': id}): list(find(filter).sort(...)); a failing find is logged and
\* re-raised, but get_credit_requests returns [] instead
Get ==
    /\ entity \in Listed
    /\ \E id \in Ids :
          LET call == [NoOp EXCEPT !.fn = "get", !.id = id] IN
          \/ last' = [call EXCEPT
                         !.outcome = "list",
                         !.returned = {d \in records : d["_id"] = Value("id", id)}]
          \/ last' = [call EXCEPT
                         !.outcome = IF ReturnsDefault(entity) THEN "list"
                                     ELSE "unavailable",
                         !.error = TRUE]
    /\ UNCHANGED <<entity, records, now>>
    /\ UNCHANGED <<reconVars, shopVars, balVars>>

\* one complete document, id 1, of an entity that has an update function
StoredInit ==
    /\ entity \in {e \in Entities : UpdateFields(e) # {}}
    /\ records = {WithId(WithDefaults(entity, Data(entity, {}, 1, 0), 0), 1)}
    /\ now = 0
    /\ last = NoOp

CrudNext ==
    \/ Tick
    \/ Create
    \/ CreateBulk
    \/ Update
    \/ Get

-----------------------------------------------------------------------------
(* Specifications *)

InitShop == ReconIdle /\ ShopInit /\ BalIdle /\ CrudIdle

SpecShop == InitShop /\ [][ShopNext]_vars

InitRead == ReconIdle /\ ReadInit /\ BalIdle /\ CrudIdle
SpecRead == InitRead /\ [][ReadNext]_vars

Init == ReconInit /\ ShopIdle /\ BalIdle /\ CrudIdle

Next ==
    \/ Connect
    \/ EnsureCollection
    \/ ReadIndexes
    \/ ScanExisting
    \/ CreateIndex
    \/ RetryDrop
    \/ RetryCreate
    \/ InitializeTaxData
    \/ Restart

Spec == Init /\ [][Next]_vars

InitBal == ReconIdle /\ ShopIdle /\ BalIdle /\ CrudIdle

SpecBal == InitBal /\ [][BalNext]_vars

InitCrud == ReconIdle /\ ShopIdle /\ BalIdle /\ CrudInit

InitCache == ReconIdle /\ ShopIdle /\ CacheInit /\ CrudIdle

\* the update functions against a collection of one document, or
\* delete_shopping_list against any shopping lists and items
InitMissing ==
    /\ ReconIdle
    /\ BalIdle
    /\ \/ StoredInit /\ ShopIdle
       \/ CrudIdle /\ ShopInit

MissingNext ==
    \/ Update
    \/ CallDelete
    \/ DeleteOne
    \/ DeleteMany

SpecMissing == InitMissing /\ [][MissingNext]_vars

(* The life of shopping lists and their items *)

\* ids that no stored list has and no stored item names: what uuid.uuid4() yields
FreshListIds ==
    ListIds \ ({d._id : d \in shopping_lists} \cup {it.list_id : it \in shopping_items})

\* ids the server can give a new shopping item
FreshItemIds == ItemIds \ {it._id : it \in shopping_items}

Statuses == {"active", "saved"}

\* how a call that wrote to shopping_lists ends: get_shopping_lists.cache_clear()
\* follows the write
AfterListWrite(ok) ==
    IF HasCacheClear("get_shopping_lists")
    THEN [outcome |-> ok, error |-> FALSE]
    ELSE [outcome |-> "AttributeError", error |-> FALSE]

Ended(fn, res) == [NoOp EXCEPT !.fn = fn, !.outcome = res.outcome, !.error = res.error]

Unavailable == [outcome |-> "unavailable", error |-> TRUE]

\* models.py 550-575: create_shopping_list(db, list_data) with complete list_data of
\* a user: _id = str(uuid.uuid4()), insert_one, cache_clear(), return the id
CreateShoppingList ==
    /\ \E l \in FreshListIds, u \in {"u1"} :
          \/ /\ shopping_lists' = shopping_lists \cup
                    {[_id |-> l, user_id |-> u, email |-> EmailOf(u), status |-> "active",
                      updated_at |-> now]}
             /\ last' = Ended("create_shopping_list", AfterListWrite("id"))
          \/ /\ last' = Ended("create_shopping_list", Unavailable)
             /\ UNCHANGED shopping_lists
    /\ UNCHANGED <<shopping_items, del, before, reader>>
    /\ UNCHANGED <<entity, records, now>>
    /\ UNCHANGED <<reconVars, balVars>>

\* models.py 619-648: update_shopping_list(db, list_id, {'status': status}):
\* updated_at is stamped, update_one with $set, cache_clear() when modified_count > 0
UpdateShoppingList ==
    /\ \E l \in ListIds, st \in Statuses :
          LET matched == {d \in shopping_lists : d._id = l} IN
          \/ /\ matched = {}
             /\ last' = Ended("update_shopping_list", [outcome |-> "False", error |-> FALSE])
             /\ UNCHANGED shopping_lists
          \/ \E d \in matched :
                LET n == [d EXCEPT !.status = st, !.updated_at = now] IN
                IF ModifiedCount(d, n) = 0
                THEN /\ last' = Ended("update_shopping_list",
                                      [outcome |-> "False", error |-> FALSE])
                     /\ UNCHANGED shopping_lists
                ELSE /\ shopping_lists' = (shopping_lists \ {d}) \cup {n}
                     /\ last' = Ended("update_shopping_list", AfterListWrite("True"))
          \/ /\ last' = Ended("update_shopping_list", Unavailable)
             /\ UNCHANGED shopping_lists
    /\ UNCHANGED <<shopping_items, del, before, reader>>
    /\ UNCHANGED <<entity, records, now>>
    /\ UNCHANGED <<reconVars, balVars>>

\* models.py 401-424: create_shopping_item(db, item_data) with complete item_data;
\* item_data['list_id'] is whatever the caller passes, the function does not look
\* the list up
CreateShoppingItem ==
    /\ \E i \in FreshItemIds, l \in ListIds :
          \/ /\ shopping_items' = shopping_items \cup {[_id |-> i, list_id |-> l]}
             /\ last' = Ended("create_shopping_item", [outcome |-> "id", error |-> FALSE])
          \/ /\ last' = Ended("create_shopping_item", Unavailable)
             /\ UNCHANGED shopping_items
    /\ UNCHANGED <<shopping_lists, del, before, reader>>
    /\ UNCHANGED <<entity, records, now>>
    /\ UNCHANGED <<reconVars, balVars>>

\* models.py 751-775: create_shopping_items_bulk(db, items_data) with complete items
\* of one list: insert_many stores them in order and stops at the first failure
CreateShoppingItemsBulk ==
    /\ \E ids \in SUBSET FreshItemIds, l \in ListIds :
          /\ ids # {}
          /\ \E stored \in SUBSET ids :
                /\ \A i \in stored, j \in ids \ stored : i < j
                /\ shopping_items' = shopping_items \cup
                                      {[_id |-> i, list_id |-> l] : i \in stored}
                /\ last' = Ended("create_shopping_items_bulk",
                                 IF stored = ids THEN [outcome |-> "ids", error |-> FALSE]
                                 ELSE [outcome |-> "BulkWriteError", error |-> TRUE])
    /\ UNCHANGED <<shopping_lists, del, before, reader>>
    /\ UNCHANGED <<entity, records, now>>
    /\ UNCHANGED <<reconVars, balVars>>

LifeNext ==
    \/ CreateShoppingList
    \/ UpdateShoppingList
    \/ CreateShoppingItem
    \/ CreateShoppingItemsBulk
    \/ CallDeleteAsOwner
    \/ DeleteOne
    \/ DeleteMany

\* empty shopping_lists and shopping_items
InitLife == ReconIdle /\ ShopIdle /\ BalIdle /\ CrudIdle

SpecLife == InitLife /\ [][LifeNext]_vars

SpecCache == InitCache /\ [][CacheNext]_vars

SpecCrud == InitCrud /\ [][CrudNext]_vars

-----------------------------------------------------------------------------
(* Claims about balances, checked under SpecBal *)

AllDone == \A c \in CallerIds : callers[c].pc = "done"

\* C4 as stated: whatever the interleaving of the calls, the final balance is the
\* starting balance plus every amount the callers passed (s + a + b).
C4_FinalIsSumOfAllAmounts ==
    AllDone => \A d \in users : d.balance.val = opening[d.user_id] + requested[d.user_id]

\* C4: no update is lost: at any time a user's balance is the balance it was created
\* with plus the amounts of all update_user_balance calls on it that did not raise;
\* so when no call was rejected the final balance is s + a + b.
C4_NoLostUpdate ==
    /\ \A d \in users : d.balance.val = opening[d.user_id] + credited[d.user_id]
    /\ (AllDone /\ \A c \in CallerIds : callers[c].result # "raised") =>
          \A d \in users : d.balance.val = opening[d.user_id] + requested[d.user_id]

\* two calls on the same user in flight together: +5 and -3 against 10 yield 12
C4_TwelveFromTen ==
    /\ \A c \in CallerIds : callers[c].pc = "done" /\ callers[c].user_id = "u1"
    /\ \E c1, c2 \in CallerIds :
          /\ c1 # c2
          /\ callers[c1].amount = 5 /\ callers[c1].result = "True"
          /\ callers[c2].amount = -3 /\ callers[c2].result = "True"
    /\ opening["u1"] = 10
    /\ \E d \in users : d.user_id = "u1" /\ d.balance.val = 12

\* C5: every stored user's ficore_credit_balance is >= 0, after any sequence of
\* create_user and update_user_balance calls with any signed amounts.
C5_BalanceNeverNegative == \A d \in users : d.balance.val >= 0

\* an overdraft was attempted (-15 against at most 10) and refused
C5_OverdraftRefused ==
    \E c \in CallerIds :
        /\ callers[c].pc = "done"
        /\ callers[c].amount = -15
        /\ callers[c].result = "raised"
        /\ \E d \in users : d.user_id = callers[c].user_id

-----------------------------------------------------------------------------
(* Claims about the reconciler, checked under Spec *)

IndexCalls == {i \in 1..Len(calls) : calls[i].op \in {"drop_index", "create_index"}}
SameIndex(a, b) == a.coll = b.coll /\ a.name = b.name

\* C6: a run of initialize_app_data that follows a run which returned and left the
\* database reconciled (every declared collection and index live, same keys, same
\* options) issues no drop_index and no create_index call.
C6_SecondRunNoIndexChurn ==
    (run > 1 /\ prev = "returned" /\ startReconciled) => IndexCalls = {}

C6_SecondRunCompleted ==
    /\ run > 1
    /\ prev = "returned"
    /\ startReconciled
    /\ pc = "returned"
    /\ Len(registry["shopping_items"]) = MaxDeclared

\* C7: no drop_index call of the reconciler names the primary index '_id_', whatever
\* the registry and the live indexes are, on the options-mismatch path and on the
\* IndexKeySpecsConflict retry path.
C7_NeverDropsPrimaryIndex ==
    \A i \in 1..Len(calls) : calls[i].op = "drop_index" => calls[i].name # PrimaryName

\* the registry declares the _id key with options the live _id_ index lacks: the scan
\* met '_id_' on the options-mismatch path and went on to create_index
C7_PrimaryMismatchSkipped ==
    /\ pc = "create"
    /\ Decl.key = KId
    /\ Decl.opts # NoOptions
    /\ PrimaryIndex \in existing_indexes

\* C8: once initialize_app_data has returned without raising, every declared
\* collection exists and every declared index has a live index with the same key
\* tuple and the same options.
C8_ReturnedImpliesReconciled == pc = "returned" => Reconciled

\* C9: a database call of the reconciler that fails unrecoverably makes
\* initialize_app_data raise: start-up is then at "raised", from which create_app
\* never continues (only a new process start leaves it).
C9_FailureAbortsStartup ==
    /\ failed => pc = "raised"
    /\ pc \in {"returned", "aborted"} => ~failed

\* the users collection was reconciled, shopping_items failed: a partial reconciliation
C9_PartialThenRaised ==
    /\ pc = "raised"
    /\ failed
    /\ ci = 2
    /\ validator["users"] = "declared"
    /\ ~Reconciled

FirstConflict(i) ==
    /\ calls[i].op = "create_index"
    /\ calls[i].res = "IndexKeySpecsConflict"
    /\ ~(i > 2 /\ calls[i - 1].op = "drop_index" /\ SameIndex(calls[i - 1], calls[i])
               /\ calls[i - 2].op = "create_index" /\ SameIndex(calls[i - 2], calls[i]))

\* C10: a create_index that fails with IndexKeySpecsConflict is followed by one
\* drop_index of the declared name and one more create_index of it; every other
\* failure (of a drop, of the retry, of a create with another error) is the last call
\* of the run and leaves start-up raised; no index is created more than twice.
C10_ConflictRetriedOnce ==
    \A i \in 1..Len(calls) :
        /\ FirstConflict(i) =>
              IF i = Len(calls) THEN pc = "retry_drop"
              ELSE /\ calls[i + 1].op = "drop_index"
                   /\ SameIndex(calls[i + 1], calls[i])
                   /\ calls[i + 1].res = "ok" =>
                         IF i + 1 = Len(calls) THEN pc = "retry_create"
                         ELSE /\ calls[i + 2].op = "create_index"
                              /\ SameIndex(calls[i + 2], calls[i])
        /\ (calls[i].res # "ok" /\ ~FirstConflict(i)) => (i = Len(calls) /\ pc = "raised")
        /\ Cardinality({j \in 1..Len(calls) :
                          calls[j].op = "create_index" /\ SameIndex(calls[j], calls[i])}) <= 2

\* a conflict was met, the named index dropped, and the retry succeeded
C10_RetrySucceeded ==
    \E i \in 1..Len(calls) :
        /\ FirstConflict(i)
        /\ i + 2 <= Len(calls)
        /\ calls[i + 1].res = "ok"
        /\ calls[i + 2].res = "ok"

-----------------------------------------------------------------------------
(* Claims about delete_shopping_list, checked under SpecShop *)

ListNow == {d \in shopping_lists : d._id = del.list_id}
ListBefore == {d \in before.lists : d._id = del.list_id}
ItemsNow == {it \in shopping_items : it.list_id = del.list_id}
ItemsBefore == {it \in before.items : it.list_id = del.list_id}
Supplied == Truthy(del.user_id) /\ Truthy(del.email)
Owned ==
    \E d \in ListBefore : d.user_id = del.user_id /\ d.email = Lower(del.email)

\* C1: after a call of delete_shopping_list has ended (True, False or an exception),
\* either the list and every item carrying its list_id are removed, or the list and
\* all of its items are still present.
C1_AllOrNothing ==
    (del.pc = "done" /\ ListBefore # {}) =>
        \/ ListNow = {} /\ ItemsNow = {}
        \/ ListNow = ListBefore /\ ItemsNow = ItemsBefore

\* C2: when the list delete matches zero documents, the call returns False and
\* leaves shopping_items (and shopping_lists) as they were, also when items with
\* that list_id exist.
C2_ZeroMatchReturnsFalse ==
    /\ (del.pc # "idle" /\ del.deleted_count = 0) =>
          /\ del.pc = "done"
          /\ del.result = "False"
          /\ shopping_items = before.items
          /\ shopping_lists = before.lists
    /\ (del.pc = "done" /\ (ListBefore = {} \/ (Supplied /\ ~Owned))) =>
          /\ del.deleted_count = 0 \/ (del.deleted_count = -1 /\ del.result = "raised")
          /\ shopping_items = before.items

C2_ZeroMatchWithItems ==
    /\ del.pc = "done"
    /\ del.deleted_count = 0
    /\ del.result = "False"
    /\ ItemsNow # {}

\* C3: with user_id and email supplied, the list is deleted only if its stored
\* user_id is the supplied one and its stored email is the supplied email
\* lower-cased; for any other caller the call returns False (unless delete_one itself
\* failed) and removes neither the list nor an item.
C3_OwnershipChecked ==
    (del.pc \in {"delete_many", "done"} /\ Supplied /\ ~Owned) =>
        /\ del.pc = "done"
        /\ del.result = "False" \/ (del.result = "raised" /\ del.deleted_count = -1)
        /\ shopping_lists = before.lists
        /\ shopping_items = before.items

\* the list exists and has items, the caller is not its owner: False, nothing removed
C3_ForeignCallerRefused ==
    /\ del.pc = "done"
    /\ Supplied
    /\ ~Owned
    /\ ListBefore # {}
    /\ ItemsBefore # {}
    /\ del.result = "False"

OtherItemsNow == {it \in shopping_items : it.list_id # del.list_id}
OtherItemsBefore == {it \in before.items : it.list_id # del.list_id}

\* C11: a delete_shopping_list call whose filter matched a list document returns
\* True, with the list document and every item carrying its list_id removed and the
\* items of other lists left as they were.
C11_SuccessReturnsTrue ==
    (del.pc = "done" /\ del.deleted_count > 0) =>
        /\ del.result = "True"
        /\ ListNow = {}
        /\ ItemsNow = {}
        /\ OtherItemsNow = OtherItemsBefore

\* C12: get_shopping_lists.cache_clear() is called only once the transaction around
\* the two deletes has committed: never while it is open, never after an abort; and
\* a call that removed the list and its items has invalidated the cache.
C12_InvalidationOnlyAfterCommit ==
    /\ del.cache_clear \in {"not called", "committed"}
    /\ (del.pc = "done" /\ del.txn = "aborted") => del.cache_clear = "not called"

\* C13: a request that reads the list and then its items while the list is being
\* deleted never finds the list gone and items of it still stored; and no item is
\* removed before the list document is.
C13_NoPartialVisibility ==
    /\ (reader.pc = "done" /\ reader.result = "read" /\ reader.in_delete) =>
          ~(reader.lists = {} /\ reader.items # {})
    /\ del.pc = "delete_one" => shopping_items = before.items

-----------------------------------------------------------------------------
(* Claims about update_user_balance as one call, checked under SpecBal *)

Returns(c) == callers[c].pc = "calling" /\ callers'[c].pc = "done"
UserOf(docs, u) == {d \in docs : d.user_id = u}
OthersOf(docs, u) == {d \in docs : d.user_id # u}

\* C14 as stated: the call changes only the balance of the matched user, by exactly
\* amount, returns True whenever a user document was matched, and returns False
\* changing nothing when no user has that user_id.
C14_TrueWhenMatched ==
    [][\A c \in CallerIds : Returns(c) =>
          LET u == callers[c].user_id
              a == callers[c].amount IN
          /\ OthersOf(users', u) = OthersOf(users, u)
          /\ UserOf(users, u) = {} => (callers'[c].result = "False" /\ users' = users)
          /\ \A d \in UserOf(users, u) :
                /\ callers'[c].result = "True"
                /\ UserOf(users', u) = {[d EXCEPT !.balance.val = @ + a]}]_vars

\* C14: the call changes only the ficore_credit_balance of the matched user, by
\* exactly amount, and nothing else; it returns True when the matched document was
\* modified, False (nothing changed) when no user has that user_id or the amount is
\* 0, and raises (nothing changed) when the validator rejects the new balance.
C14_OnlyMatchedBalanceChanges ==
    [][\A c \in CallerIds : Returns(c) =>
          LET u == callers[c].user_id
              a == callers[c].amount
              res == callers'[c].result IN
          /\ OthersOf(users', u) = OthersOf(users, u)
          /\ UserOf(users, u) = {} => (res = "False" /\ users' = users)
          /\ \A d \in UserOf(users, u) :
                /\ res = "True" <=> (a # 0 /\ d.balance.val + a >= 0)
                /\ res = "False" <=> a = 0
                /\ res = "raised" <=> d.balance.val + a < 0
                /\ res = "True" => UserOf(users', u) = {[d EXCEPT !.balance.val = @ + a]}
                /\ res # "True" => users' = users]_vars

\* two users stored; a call on one of them returned True, a call with amount 0 on
\* the same user returned False
C14_TrueAndZeroFalse ==
    /\ Cardinality(users) = 2
    /\ \E c1, c2 \in CallerIds :
          /\ callers[c1].pc = "done" /\ callers[c1].result = "True"
          /\ callers[c1].amount = 5 /\ callers[c1].user_id = "u1"
          /\ callers[c2].pc = "done" /\ callers[c2].result = "False"
          /\ callers[c2].amount = 0 /\ callers[c2].user_id = "u1"

-----------------------------------------------------------------------------
(* Claims about the create and update functions, checked under SpecCrud *)

\* a step that is a call of the named kind; last' holds its arguments and result
CallStep(fn) == last'.fn = fn /\ (last' # last \/ records' # records)
OneOmitted(f) == last.fn = "create" /\ last.omitted = <<{f}>>
Reached == last.outcome # "unavailable"
DefaultedOnCreate ==
    (entity = "shopping_items" /\ OneOmitted("unit")) \/
    (entity = "shopping_lists" /\ OneOmitted("items"))

LacksRequired(omitted) ==
    \E i \in 1..Len(omitted) : omitted[i] \cap required_fields(entity) # {}

C17_CompleteCreateReturnsId ==
    [][(CallStep("create") /\ last'.omitted = <<{}>> /\ last'.outcome # "unavailable") =>
          /\ last'.outcome = "id"
          /\ \E d \in records' :
                /\ d \notin records
                /\ records' = records \cup {d}
                /\ d["_id"] = Value("id", last'.id)]_vars

Target == {d \in records : d["_id"] = Value("id", last'.id)}
TargetAfter == {d \in records' : d["_id"] = Value("id", last'.id)}
NewValue == Sample(last'.field, last'.token, now)

\* C18: for shopping items, shopping lists, budgets, bills, bill reminders and credit
\* requests, an update of an existing document with {field: current_value} returns
\* False.
C18_SameValueReturnsFalse ==
    [][(CallStep("update") /\ last'.outcome # "unavailable") =>
          \A d \in Target : d[last'.field] = NewValue => last'.outcome = "False"]_vars

\* C19: for shopping items, shopping lists, budgets, bills and bill reminders, an
\* update of an existing document with {field: new_value}, new_value different from
\* the stored one, returns True and the stored document then holds new_value.
C19_NewValueReturnsTrue ==
    [][(CallStep("update") /\ entity # "credit_requests"
                           /\ last'.outcome # "unavailable") =>
          \A d \in Target : d[last'.field] # NewValue =>
              /\ last'.outcome = "True"
              /\ \A n \in TargetAfter : n[last'.field] = NewValue]_vars

Modifying == CallStep("update") /\ records' # records
Unnamed(d) == DOMAIN d \ {last'.field, "updated_at"}
FrameKept ==
    /\ records' \ TargetAfter = records \ Target
    /\ \A d \in Target : \A n \in TargetAfter :
          /\ Unnamed(n) = Unnamed(d)
          /\ \A f \in Unnamed(d) : n[f] = d[f]
          /\ n[last'.field] = NewValue

-----------------------------------------------------------------------------
(* Claims about ownership in delete_shopping_list, checked under SpecShop *)

OnlyUserId == Truthy(del.user_id) /\ ~Truthy(del.email)
OnlyEmail == ~Truthy(del.user_id) /\ Truthy(del.email)

\* C28: a delete_shopping_list call given a user_id but no email, or an email but no
\* user_id, deletes only a list of the supplied identity: a list whose stored user_id
\* differs from the supplied user_id (whose stored email differs from the supplied
\* email) is still stored after the call.
C28_OneOwnerParameterRestricts ==
    del.pc \in {"delete_many", "done"} =>
        \A d \in ListBefore :
            /\ (OnlyUserId /\ d.user_id # del.user_id) => d \in shopping_lists
            /\ (OnlyEmail /\ d.email # Lower(del.email)) => d \in shopping_lists

-----------------------------------------------------------------------------
(* Claims about start-up as a whole, checked under Spec *)

\* C30: a start-up whose reconciliation raised no error goes on to serve: after
\* initialize_app_data has returned, create_app does not stop before it has ensured
\* the admin user, registered the blueprints and returned the app.
C30_ReturnedStartupServes == ~failed => pc # "aborted"

-----------------------------------------------------------------------------
(* Claims about bill reminders, checked under SpecCrud *)

CreatedWith == {"user_id", "notification_id", "type", "message", "sent_at"}

\* C25: whatever repository call is made, every stored bill reminder keeps the
\* user_id, notification_id, type, message and sent_at it was created with; only its
\* read_status may change.
C25_ReminderKeepsCreatedFields ==
    [][entity = "bill_reminders" =>
          \A d \in records :
              \E n \in records' :
                  /\ n["_id"] = d["_id"]
                  /\ \A f \in CreatedWith : n[f] = d[f]]_vars

-----------------------------------------------------------------------------
(* Claims about reading back and about errors, checked under SpecCrud *)

CreatedWithoutUnit ==
    /\ entity = "shopping_items"
    /\ last.fn = "create"
    /\ last.omitted = <<{"unit"}>>
    /\ last.outcome = "id"

\* C24: when create_shopping_item(data) with unit omitted is followed by
\* get_shopping_items filtered to the new item, the to_dict_shopping_item projection
\* of the record read holds every input field with its input value (the instant t
\* of the call being the one the input dates carry), and unit with the default "piece".
C24_ItemRoundTrip ==
    [][(CreatedWithoutUnit /\ CallStep("get") /\ last'.id = last.id
                           /\ ~last'.error) =>
          \E t \in 0..now :
             LET input == Data(entity, {"unit"}, last.token, t) IN
             /\ last'.returned # {}
             /\ \A d \in last'.returned :
                   LET p == ToDictShoppingItem(d) IN
                   /\ \A f \in DOMAIN input : f \in DOMAIN p /\ p[f] = input[f]
                   /\ "unit" \in DOMAIN p /\ p["unit"] = Piece]_vars

Raised == {"unavailable", "WriteError", "DuplicateKeyError", "BulkWriteError"}

\* C22: every create_*, update_* and get_* function of the model, update_credit_request
\* and get_credit_requests included, answers a failed database call by raising to its
\* caller: none of them turns the failure into a return value.  (The two cached
\* lookups, get_user and get_user_by_email, are not among these functions.)
C22_DatabaseErrorsReraised ==
    [][\A fn \in {"create", "bulk", "update", "get"} :
          (CallStep(fn) /\ last'.error) => last'.outcome \in Raised]_vars

-----------------------------------------------------------------------------
(* Claims about the cached lookups, checked under SpecCache *)

LookupStep(fn, key) == lookup' # lookup /\ lookup'.fn = fn /\ lookup'.key = key
HoldsUser(fn, key) == key \in DOMAIN cache[fn] /\ cache[fn][key] # NoUser

\* C23: no user write invalidates the cache of get_user and get_user_by_email: a key
\* under which a user object is cached keeps that object through every step, and
\* every lookup for the key returns it, with the balance it had when it was first
\* read, whatever update_user_balance did to the user since; and what a lookup
\* returns is what the cache then holds for the key.
C23_CachedUserNeverRefreshed ==
    [][\A fn \in Cached : \A key \in LookupKeys(fn) :
          /\ HoldsUser(fn, key) =>
                /\ key \in DOMAIN cache'[fn]
                /\ cache'[fn][key] = cache[fn][key]
          /\ LookupStep(fn, key) =>
                /\ key \in DOMAIN cache'[fn]
                /\ lookup'.result = cache'[fn][key]
                /\ HoldsUser(fn, key) => lookup'.result = cache[fn][key]]_vars

\* get_user('u1') was answered from the cache with a balance that is no longer the
\* stored one: update_user_balance has changed the user in between
C23_StaleBalanceServed ==
    /\ lookup.fn = "get_user"
    /\ lookup.hit
    /\ \E c \in CallerIds : callers[c].pc = "done" /\ callers[c].result = "True"
    /\ \E d \in users : \E o \in lookup.result :
          d._id = lookup.key /\ d.balance.val # o.balance.val

\* C29: a lookup that once returned None (no such user, or a failed find_one) does
\* not hide a user stored later: a call of get_user / get_user_by_email made while a
\* user with that id / email is stored, and whose own database access does not
\* fail, returns that user and not None.
C29_LaterUserFound ==
    [][\A fn \in Cached : \A key \in LookupKeys(fn) :
          (LookupStep(fn, key) /\ ~lookup'.error /\ FoundBy(fn, key) # {}) =>
              lookup'.result # NoUser]_vars

-----------------------------------------------------------------------------
(* Claims about a missing target, checked under SpecMissing *)

DeleteOneStep == del.pc = "delete_one" /\ del'.pc # "delete_one"

-----------------------------------------------------------------------------
(* Claims about the life of shopping lists and their items, checked under SpecLife *)

ListCall == {"create_shopping_list", "update_shopping_list"}
Exceptions == {"AttributeError", "unavailable", "WriteError", "BulkWriteError"}

\* C26: a create_shopping_list, update_shopping_list or delete_shopping_list call
\* that raises leaves the database as it was before the call: no list inserted or
\* modified, no list and no item deleted by it.
C26_RaisedMeansUntouched ==
    [][/\ \A fn \in ListCall :
             (last' # last /\ last'.fn = fn /\ last'.outcome \in Exceptions) =>
                 shopping_lists' = shopping_lists
       /\ (del.pc # "done" /\ del'.pc = "done" /\ del'.result = "raised") =>
             /\ \A d \in before.lists : d._id = del.list_id => d \in shopping_lists'
             /\ \A it \in before.items :
                   it.list_id = del.list_id => it \in shopping_items']_vars

Quiet == del.pc \in {"idle", "done"}

\* C27: whenever no delete_shopping_list call is under way, every stored shopping
\* item's list_id is the _id of a stored shopping list.
C27_NoOrphanItem ==
    Quiet => \A it \in shopping_items : \E d \in shopping_lists : d._id = it.list_id

====
